---- MODULE Spec2Model ----
(***************************************************************************)
(* A model of pylmstools.player.LMSPlayer: one player handle talking to a  *)
(* server through server.request(player=..., params=...).                  *)
(*                                                                         *)
(* Python values are records [t, n, sc, s, l]:                             *)
(*   t = "none"            None                                            *)
(*   t = "int",  n         the integer n                                   *)
(*   t = "bool", n         True (n = 1) or False (n = 0)                   *)
(*   t = "float", n, sc    the decimal n / 10^sc                           *)
(*   t = "str",  s         a string, as the sequence of its pieces: text   *)
(*                         that comes from outside is held one character   *)
(*                         per piece, a literal word of a command is one   *)
(*                         piece, and a separator (" " or ",") is always   *)
(*                         a piece of its own                              *)
(*   t = "list", l         a list                                          *)
(*   t = "player", s, l    an LMSPlayer: s is its ref, l = <<_name,        *)
(*                         _model, _ip>>                                   *)
(*   t = "object"          any other object (it has no attribute ref)      *)
(***************************************************************************)
EXTENDS Integers, Sequences, FiniteSets, TLC

VARIABLES ref, _name, _model, _ip, srv, last, log

vars == <<ref, _name, _model, _ip, srv, last, log>>

----------------------------------------------------------------------------
(* Bounds of the model *)

\* longest player reference, in characters
MaxRefLen == 1
\* longest string handed to a coercion, in characters
MaxStrLen == 2
\* longest _sync field, in characters
MaxSyncLen == 3
\* the latest request of an operation that the transport may fail
MaxFailAt == 3

----------------------------------------------------------------------------
(* Python values *)

PyVal(t, n, sc, s, l) == [t |-> t, n |-> n, sc |-> sc, s |-> s, l |-> l]

None == PyVal("none", 0, 0, <<>>, <<>>)
PyInt(n) == PyVal("int", n, 0, <<>>, <<>>)
PyBool(b) == PyVal("bool", IF b THEN 1 ELSE 0, 0, <<>>, <<>>)
PyStr(s) == PyVal("str", 0, 0, s, <<>>)
PyList(l) == PyVal("list", 0, 0, <<>>, l)
PyObject == PyVal("object", 0, 0, <<>>, <<>>)
Player(r, nm, md, ip) == PyVal("player", 0, 0, r, <<nm, md, ip>>)

RECURSIVE Pow10(_)
Pow10(k) == IF k = 0 THEN 1 ELSE 10 * Pow10(k - 1)

Abs(n) == IF n < 0 THEN -n ELSE n

\* a float is kept with the fewest fraction digits that hold its value
RECURSIVE PyFloat(_, _)
PyFloat(n, sc) ==
    IF sc > 0 /\ n % 10 = 0 THEN PyFloat(n \div 10, sc - 1)
    ELSE PyVal("float", n, sc, <<>>, <<>>)

\* the outcome of evaluating an expression: a value, or an exception
Ret(v) == [raised |-> "none", ret |-> v]
Raise(e) == [raised |-> e, ret |-> None]

Digits == {"0", "1", "2", "3", "4", "5", "6", "7", "8", "9"}

DigitVal(c) ==
    CASE c = "0" -> 0 [] c = "1" -> 1 [] c = "2" -> 2 [] c = "3" -> 3
      [] c = "4" -> 4 [] c = "5" -> 5 [] c = "6" -> 6 [] c = "7" -> 7
      [] c = "8" -> 8 [] c = "9" -> 9

AllDigits(s) == \A i \in 1..Len(s) : s[i] \in Digits

RECURSIVE DigitsVal(_)
DigitsVal(s) ==
    IF s = <<>> THEN 0
    ELSE 10 * DigitsVal(SubSeq(s, 1, Len(s) - 1)) + DigitVal(s[Len(s)])

HasSign(s) == s # <<>> /\ s[1] \in {"+", "-"}
Unsigned(s) == IF HasSign(s) THEN Tail(s) ELSE s
SignOf(s) == IF s # <<>> /\ s[1] = "-" THEN -1 ELSE 1

\* the text is an integer literal: an optional sign and one or more digits
IsIntLiteral(s) == Unsigned(s) # <<>> /\ AllDigits(Unsigned(s))

DotAt(s) == IF \E i \in 1..Len(s) : s[i] = "."
            THEN CHOOSE i \in 1..Len(s) : s[i] = "." /\ \A j \in 1..(i - 1) : s[j] # "."
            ELSE 0

\* the text is a decimal literal: an optional sign, digits with at most one
\* point among them, and at least one digit
IsFloatLiteral(s) ==
    LET u == Unsigned(s)
        d == DotAt(u)
        whole == IF d = 0 THEN u ELSE SubSeq(u, 1, d - 1)
        frac == IF d = 0 THEN <<>> ELSE SubSeq(u, d + 1, Len(u))
    IN  AllDigits(whole) /\ AllDigits(frac) /\ Len(whole) + Len(frac) > 0

FloatLiteral(s) ==
    LET u == Unsigned(s)
        d == DotAt(u)
        whole == IF d = 0 THEN u ELSE SubSeq(u, 1, d - 1)
        frac == IF d = 0 THEN <<>> ELSE SubSeq(u, d + 1, Len(u))
    IN  PyFloat(SignOf(s) * DigitsVal(whole \o frac), Len(frac))

\* int(v)
int(v) ==
    CASE v.t \in {"int", "bool"} -> Ret(PyInt(v.n))
      [] v.t = "float" ->
            Ret(PyInt((IF v.n < 0 THEN -1 ELSE 1) * (Abs(v.n) \div Pow10(v.sc))))
      [] v.t = "str" ->
            IF IsIntLiteral(v.s) THEN Ret(PyInt(SignOf(v.s) * DigitsVal(Unsigned(v.s))))
            ELSE Raise("ValueError")
      [] OTHER -> Raise("TypeError")

\* float(v)
float(v) ==
    CASE v.t \in {"int", "bool"} -> Ret(PyFloat(v.n, 0))
      [] v.t = "float" -> Ret(v)
      [] v.t = "str" ->
            IF IsFloatLiteral(v.s) THEN Ret(FloatLiteral(v.s))
            ELSE Raise("ValueError")
      [] OTHER -> Raise("TypeError")

RECURSIVE ZeroPad(_, _)
ZeroPad(n, width) ==
    IF width = 0 THEN ""
    ELSE ZeroPad(n \div 10, width - 1) \o ToString(n % 10)

\* the text of a value inside an f-string, as one piece
Format(v) ==
    CASE v.t = "int" -> ToString(v.n)
      [] v.t = "float" -> (IF v.n < 0 THEN "-" ELSE "")
                          \o ToString(Abs(v.n) \div Pow10(v.sc)) \o "."
                          \o (IF v.sc = 0 THEN "0" ELSE ZeroPad(Abs(v.n) % Pow10(v.sc), v.sc))
      [] v.t = "bool" -> IF v.n = 1 THEN "True" ELSE "False"
      [] v.t = "none" -> "None"
      [] OTHER -> "<object>"

\* f"{v}": the pieces of a string are kept, any other value is one piece
Fmt(v) == IF v.t = "str" THEN v.s ELSE <<Format(v)>>

\* str.split(sep) on a sequence of pieces
RECURSIVE Split(_, _)
Split(s, sep) ==
    IF \A i \in 1..Len(s) : s[i] # sep THEN <<s>>
    ELSE LET i == CHOOSE i \in 1..Len(s) : s[i] = sep /\ \A j \in 1..(i - 1) : s[j] # sep
         IN  <<SubSeq(s, 1, i - 1)>> \o Split(SubSeq(s, i + 1, Len(s)), sep)

LowerChar(c) == CASE c = "A" -> "a" [] c = "B" -> "b" [] OTHER -> c

\* str.lower()
lower(s) == [i \in 1..Len(s) |-> LowerChar(s[i])]

\* the strings of 1..n characters over an alphabet, and those of 0..n
RECURSIVE StrUpTo(_, _)
StrUpTo(alphabet, n) ==
    IF n = 0 THEN {<<>>}
    ELSE LET shorter == StrUpTo(alphabet, n - 1)
         IN  shorter \cup {Append(s, c) : s \in shorter, c \in alphabet}

Str1UpTo(alphabet, n) == StrUpTo(alphabet, n) \ {<<>>}

----------------------------------------------------------------------------
(* The transport: server.request(player=..., params=...)                   *)
(*                                                                         *)
(* An operation runs against an environment env = [resp, fail]: resp is    *)
(* the mapping the server answers with, and fail = [at, kind] makes the    *)
(* at-th request of the operation raise kind (at = 0: no request fails).   *)
(* cx = [log, tf] is what the operation has done so far: the requests it   *)
(* has issued, and the failure the transport has raised ("none" if none).  *)

Out(h, cx, raised, ret) == [h |-> h, cx |-> cx, raised |-> raised, ret |-> ret]

NoFail == [at |-> 0, kind |-> "none"]

Get(m, key) == IF key \in DOMAIN m THEN m[key] ELSE None

server_request(h, cx, env, player, params) ==
    LET log2 == Append(cx.log, [player |-> player, params |-> params])
    IN  IF Len(log2) = env.fail.at
        THEN Out(h, [log |-> log2, tf |-> env.fail.kind], env.fail.kind, None)
        ELSE Out(h, [log |-> log2, tf |-> cx.tf], "none", env.resp)

\* the value of truth of a Python value (LMSPlayer defines neither __bool__
\* nor __len__, so a player is true)
Truthy(v) ==
    CASE v.t = "none" -> FALSE
      [] v.t \in {"int", "bool", "float"} -> v.n # 0
      [] v.t = "str" -> v.s # <<>>
      [] v.t = "list" -> v.l # <<>>
      [] OTHER -> TRUE

\* the pieces of a literal command text: its words with " " between them
RECURSIVE Words(_)
Words(ws) ==
    IF Len(ws) <= 1 THEN ws
    ELSE <<ws[1], " ">> \o Words(Tail(ws))

----------------------------------------------------------------------------
(* LMSPlayer *)
(*                                                                         *)
(* An operation is an operator from the handle h, cx and env to an         *)
(* outcome [h, cx, raised, ret]: the handle after it, what it did, the     *)
(* exception it raised ("none" if it returned) and the value it returned.  *)

\* r, and then K on its outcome unless r raised
Then(r, K(_)) == IF r.raised # "none" THEN r ELSE K(r)

\* the outcome of a coercion, as the outcome of an operation
Lift(h, cx, c) == Out(h, cx, c.raised, c.ret)

\* a statement whose value is not used
Discard(r) == Out(r.h, r.cx, r.raised, None)

\* try: r except <kind>: <the handler's value>
Except(r, kind, h, handled) ==
    IF r.raised = kind THEN Out(h, r.cx, "none", handled) ELSE r

ExceptTypeError(r, h, handled) == Except(r, "TypeError", h, handled)

\* try: r except: <the handler's value>
ExceptAny(r, h, handled) ==
    IF r.raised # "none" THEN Out(h, r.cx, "none", handled) ELSE r

Name(h) == h.l[1]
Model(h) == h.l[2]
Ip(h) == h.l[3]

request(h, cx, env, command) ==
    IF command.t # "str"
    THEN Out(h, cx, "AttributeError", None)
    ELSE server_request(h, cx, env, PyStr(h.s), Split(command.s, " "))

parse_request(h, cx, env, command, key) ==
    Then(request(h, cx, env, command),
         LAMBDA r : Out(r.h, r.cx, "none", Get(r.ret, key)))

\* self.request(command), as a statement
command_only(h, cx, env, command) == Discard(request(h, cx, env, command))

name(h, cx, env) ==
    IF Name(h) = None
    THEN Then(parse_request(h, cx, env, PyStr(Words(<<"name", "?">>)), "_value"),
              LAMBDA r : Out(Player(h.s, r.ret, Model(h), Ip(h)), r.cx, "none", r.ret))
    ELSE Out(h, cx, "none", Name(h))

name_setter(h, cx, env, nm) ==
    Then(request(h, cx, env, PyStr(<<"name", " ">> \o Fmt(nm))),
         LAMBDA r : Out(Player(h.s, nm, Model(h), Ip(h)), r.cx, "none", None))

update(h, cx, env) ==
    Then(name(h, cx, env), LAMBDA n :
    Then(parse_request(Player(h.s, n.ret, Model(n.h), Ip(n.h)), n.cx, env,
                       PyStr(Words(<<"player", "model", "?">>)), "_model"), LAMBDA m :
    Then(parse_request(Player(h.s, Name(m.h), m.ret, Ip(m.h)), m.cx, env,
                       PyStr(Words(<<"player", "ip", "?">>)), "_ip"), LAMBDA i :
    Out(Player(h.s, Name(i.h), Model(i.h), i.ret), i.cx, "none", None))))

\* LMSPlayer(ref, server)
__init__(r, cx, env) == update(Player(r, None, None, None), cx, env)

\* isinstance(other): the built-in takes two arguments and is given one
isinstance(other) == Raise("TypeError")

\* the handler of AttributeError in __eq__
EqHandler(h, other, i) ==
    IF i.raised # "none" THEN i
    ELSE IF i.ret = PyStr(<<"str">>)
         THEN Ret(PyBool(lower(h.s) = lower(other.s)))
         ELSE Ret(PyBool(FALSE))

__eq__(h, other) ==
    IF other.t = "player"
    THEN Ret(PyBool(h.s = other.s))
    ELSE \* other.ref raised AttributeError
         EqHandler(h, other, isinstance(other))

\* the operations that send one fixed command and return nothing
FixedCommands ==
    [play |-> <<"play">>, stop |-> <<"stop">>, pause |-> <<"pause", "1">>,
     unpause |-> <<"pause", "0">>, toggle |-> <<"pause">>,
     next |-> <<"playlist", "jump", "+1">>, prev |-> <<"playlist", "jump", "-1">>,
     playlist_clear |-> <<"playlist", "clear">>, unsync |-> <<"sync", "-">>]

fixed_command(h, cx, env, op) ==
    command_only(h, cx, env, PyStr(Words(FixedCommands[op])))

\* the properties that return one field of the response as it is
RawQueries ==
    [mode |-> <<<<"mode", "?">>, "_mode">>,
     wifi_signal_strength |-> <<<<"signalstrength", "?">>, "_signalstrength">>,
     current_title |-> <<<<"current_title", "?">>, "_current_title">>,
     track_artist |-> <<<<"artist", "?">>, "_artist">>,
     track_album |-> <<<<"album", "?">>, "_album">>,
     track_title |-> <<<<"title", "?">>, "_title">>]

raw_query(h, cx, env, op) ==
    parse_request(h, cx, env, PyStr(Words(RawQueries[op][1])), RawQueries[op][2])

seek_to(h, cx, env, seconds) ==
    ExceptTypeError(
        Then(Lift(h, cx, float(seconds)), LAMBDA c :
             command_only(h, cx, env, PyStr(<<"time", " ">> \o Fmt(c.ret)))),
        h, None)

forward(h, cx, env, seconds) ==
    ExceptTypeError(
        Then(Lift(h, cx, int(seconds)), LAMBDA c :
             command_only(h, cx, env, PyStr(<<"time", " ", "+">> \o Fmt(c.ret)))),
        h, None)

rewind(h, cx, env, seconds) ==
    ExceptTypeError(
        Then(Lift(h, cx, int(seconds)), LAMBDA c :
             command_only(h, cx, env, PyStr(<<"time", " ", "-">> \o Fmt(c.ret)))),
        h, None)

\* muted == 1
EqualsOne(v) == v.t \in {"int", "bool", "float"} /\ v.n = 1 /\ v.sc = 0

muted(h, cx, env) ==
    Then(parse_request(h, cx, env, PyStr(Words(<<"mixer", "muting", "?">>)), "_muting"),
         LAMBDA r : IF r.ret = None THEN Out(r.h, r.cx, "none", PyBool(FALSE))
                    ELSE Out(r.h, r.cx, "none", PyBool(EqualsOne(r.ret))))

muted_setter(h, cx, env, muting) ==
    Then(Lift(h, cx, int(muting)), LAMBDA c :
         command_only(h, cx, env, PyStr(<<"mixer", " ", "muting", " ">> \o Fmt(c.ret))))

\* a getter with a bare except around its query
MutCoercedQuery(h, cx, env, command, key, asFloat, default) ==
    ExceptAny(
        Then(parse_request(h, cx, env, PyStr(Words(command)), key), LAMBDA r :
             Lift(r.h, r.cx, IF asFloat THEN float(r.ret) ELSE int(r.ret))),
        h, default)

\* try: return <coerce>(self.parse_request(command, key)) except TypeError: <default>
coerced_query(h, cx, env, command, key, asFloat, default) ==
    ExceptTypeError(
        Then(parse_request(h, cx, env, PyStr(Words(command)), key), LAMBDA r :
             Lift(r.h, r.cx, IF asFloat THEN float(r.ret) ELSE int(r.ret))),
        h, default)

track_duration(h, cx, env) ==
    coerced_query(h, cx, env, <<"duration", "?">>, "_duration", TRUE, PyFloat(0, 0))

time_elapsed(h, cx, env) ==
    coerced_query(h, cx, env, <<"time", "?">>, "_time", TRUE, PyFloat(0, 0))

track_count(h, cx, env) ==
    coerced_query(h, cx, env, <<"playlist", "tracks", "?">>, "_tracks", FALSE, PyInt(0))

playlist_position(h, cx, env) ==
    coerced_query(h, cx, env, <<"playlist", "index", "?">>, "_index", FALSE, PyInt(0))

\* a volume getter that keeps what it read in a field of the handle
MutVolume(h, cx, env) ==
    Then(coerced_query(h, cx, env, <<"mixer", "volume", "?">>, "_volume", FALSE, PyInt(0)),
         LAMBDA r : Out(Player(r.h.s, Name(r.h), r.ret, Ip(r.h)), r.cx, "none", r.ret))

volume(h, cx, env) ==
    coerced_query(h, cx, env, <<"mixer", "volume", "?">>, "_volume", FALSE, PyInt(0))

Max(a, b) == IF a >= b THEN a ELSE b
Min(a, b) == IF a <= b THEN a ELSE b

volume_setter(h, cx, env, v) ==
    ExceptTypeError(
        Then(Lift(h, cx, int(v)), LAMBDA c :
             command_only(h, cx, env,
                 PyStr(<<"mixer", " ", "volume", " ">>
                       \o Fmt(PyInt(Min(100, Max(0, c.ret.n))))))),
        h, None)

volume_up(h, cx, env, interval) ==
    command_only(h, cx, env, PyStr(<<"mixer", " ", "volume", " ", "+">> \o Fmt(interval)))

volume_down(h, cx, env, interval) ==
    command_only(h, cx, env, PyStr(<<"mixer", " ", "volume", " ", "-">> \o Fmt(interval)))

\* the decimal a - b
FloatSub(a, b) ==
    PyFloat(a.n * Pow10(Max(a.sc, b.sc) - a.sc) - b.n * Pow10(Max(a.sc, b.sc) - b.sc),
            Max(a.sc, b.sc))

\* (e / d) * upper, kept as the exact fraction n / sc
Percentage(e, d, upper) ==
    IF d.n = 0 THEN Raise("ZeroDivisionError")
    ELSE Ret(PyVal("fraction", e.n * Pow10(d.sc) * upper.n, d.n * Pow10(e.sc), <<>>, <<>>))

track_elapsed_and_duration(h, cx, env) ==
    Then(track_duration(h, cx, env), LAMBDA d :
    Then(time_elapsed(d.h, d.cx, env), LAMBDA e :
    Out(e.h, e.cx, "none", PyList(<<e.ret, d.ret>>))))

time_remaining(h, cx, env) ==
    Then(track_duration(h, cx, env), LAMBDA d :
    Then(time_elapsed(d.h, d.cx, env), LAMBDA e :
    Out(e.h, e.cx, "none", FloatSub(d.ret, e.ret))))

percentage_elapsed(h, cx, env, upper) ==
    Except(
        Then(track_elapsed_and_duration(h, cx, env), LAMBDA r :
             Lift(r.h, r.cx, Percentage(r.ret.l[1], r.ret.l[2], upper))),
        "ZeroDivisionError", h, PyFloat(0, 0))

playlist_play_index(h, cx, env, index) ==
    request(h, cx, env, PyStr(<<"playlist", " ", "index", " ">> \o Fmt(index)))

\* the operations that send "playlist <verb> <item>" and return nothing
ItemCommands ==
    [playlist_play |-> "play", playlist_add |-> "add", playlist_insert |-> "insert",
     playlist_delete |-> "deleteitem", playlist_erase |-> "delete"]

item_command(h, cx, env, op, item) ==
    command_only(h, cx, env, PyStr(<<"playlist", " ", ItemCommands[op], " ">> \o Fmt(item)))

playlist_move(h, cx, env, from_index, to_index) ==
    command_only(h, cx, env,
        PyStr(<<"playlist", " ", "move", " ">> \o Fmt(from_index) \o <<" ">> \o Fmt(to_index)))

\* sep.join(strs)
RECURSIVE Join(_, _)
Join(strs, sep) ==
    IF strs = <<>> THEN <<>>
    ELSE IF Len(strs) = 1 THEN strs[1].s
    ELSE strs[1].s \o <<sep>> \o Join(Tail(strs), sep)

DETAILED_TAGS ==
    PyList(<<PyStr(<<"ARTIST">>), PyStr(<<"COVERID">>), PyStr(<<"DURATION">>),
             PyStr(<<"COVERART">>), PyStr(<<"ARTWORK_URL">>), PyStr(<<"ALBUM">>),
             PyStr(<<"REMOTE">>), PyStr(<<"ARTWORK_TRACK_ID">>)>>)

\* f"status {start} {amount} {tags}"
StatusCommand(taglist, start, amount) ==
    <<"status", " ">> \o Fmt(IF start = None THEN PyInt(0) ELSE start)
    \o <<" ">> \o Fmt(amount) \o <<" ">>
    \o (IF Truthy(taglist) THEN <<"tags:">> \o Join(taglist.l, ",") ELSE <<>>)

\* a status query that catches TypeError alone, as the getters do
MutStatusQuery(h, cx, env, command) ==
    ExceptTypeError(parse_request(h, cx, env, command, "playlist_loop"), h, PyList(<<>>))

\* the status query of playlist_get_info: any failure gives the empty list
StatusQuery(h, cx, env, command) ==
    ExceptAny(parse_request(h, cx, env, command, "playlist_loop"), h, PyList(<<>>))

playlist_get_info(h, cx, env, taglist, start, amount) ==
    Then(IF amount = None THEN track_count(h, cx, env) ELSE Out(h, cx, "none", amount),
         LAMBDA a : StatusQuery(a.h, a.cx, env, PyStr(StatusCommand(taglist, start, a.ret))))

playlist_get_detail(h, cx, env, start, amount, taglist) ==
    playlist_get_info(h, cx, env, IF taglist = None THEN DETAILED_TAGS ELSE taglist,
                      start, amount)

playlist_get_current_detail(h, cx, env, amount, taglist) ==
    Then(playlist_position(h, cx, env), LAMBDA p :
         playlist_get_info(p.h, p.cx, env,
                           IF taglist = None THEN DETAILED_TAGS ELSE taglist,
                           p.ret, amount))

\* the first test of sync: none of player, ref and index was given
NoTarget(player, r, index) == ~(Truthy(player) \/ Truthy(r) \/ index # None)

\* a second test that takes an index for a target
MutFollowerNoTarget(player, r, index, master) ==
    ~master /\ ~(Truthy(player) \/ Truthy(r) \/ index # None)

\* the second test of sync: a follower was given neither player nor ref
FollowerNoTarget(player, r, index, master) == ~master /\ ~(Truthy(player) \/ Truthy(r))

SyncTarget(player, r, index) ==
    IF Truthy(player) THEN PyStr(player.s)
    ELSE IF Truthy(r) THEN r
    ELSE index

sync(h, cx, env, player, r, index, master) ==
    IF NoTarget(player, r, index) THEN Out(h, cx, "LMSPlayerError", None)
    ELSE IF FollowerNoTarget(player, r, index, master) THEN Out(h, cx, "LMSPlayerError", None)
    ELSE IF master
         THEN command_only(h, cx, env,
                           PyList(<<PyStr(<<"sync">>), SyncTarget(player, r, index)>>))
         ELSE Discard(server_request(h, cx, env, SyncTarget(player, r, index),
                                     <<<<"sync">>, h.s>>))

\* the outcome p of a constructor called by h: the new player is the value
Constructed(h, p) == Out(h, p.cx, p.raised, IF p.raised = "none" THEN p.h ELSE None)

\* [LMSPlayer(ref, self.server) for ref in refs]
RECURSIVE Players(_, _, _, _, _)
Players(h, refs, built, cx, env) ==
    IF refs = <<>> THEN Out(h, cx, "none", PyList(built))
    ELSE Then(Constructed(h, __init__(refs[1], cx, env)),
              LAMBDA p : Players(h, Tail(refs), Append(built, p.ret), p.cx, env))

\* the list of the strs
StrList(strs) == PyList([i \in 1..Len(strs) |-> PyStr(strs[i])])

\* get_synced_players that returns the references whatever refs_only is
MutSynced(h, cx, env, sync_, refs_only) ==
    IF Fmt(sync_) = <<"-">> THEN Out(h, cx, "none", PyList(<<>>))
    ELSE IF sync_.t # "str" THEN Out(h, cx, "AttributeError", None)
    ELSE Out(h, cx, "none", StrList(Split(sync_.s, ",")))

\* get_synced_players after its query returned sync
Synced(h, cx, env, sync_, refs_only) ==
    IF Fmt(sync_) = <<"-">> THEN Out(h, cx, "none", PyList(<<>>))
    ELSE IF sync_.t # "str" THEN Out(h, cx, "AttributeError", None)
    ELSE IF refs_only THEN Out(h, cx, "none", StrList(Split(sync_.s, ",")))
    ELSE Players(h, Split(sync_.s, ","), <<>>, cx, env)

get_synced_players(h, cx, env, refs_only) ==
    Then(parse_request(h, cx, env, PyStr(Words(<<"sync", "?">>)), "_sync"),
         LAMBDA r : Synced(r.h, r.cx, env, r.ret, refs_only))

----------------------------------------------------------------------------
(* The values the operations are tried on *)

RefChars == {"a", "A"}
Refs == Str1UpTo(RefChars, MaxRefLen)

\* what a handle is compared with: players, strings and other objects
Others ==
    {Player(r, None, None, None) : r \in Str1UpTo(RefChars \cup {"b"}, MaxStrLen)}
    \cup {PyStr(r) : r \in Str1UpTo(RefChars \cup {"b"}, MaxStrLen)}
    \cup {PyObject, None, PyInt(5)}

Strs == {PyStr(s) : s \in StrUpTo({"5", ".", "a"}, MaxStrLen)}

\* the arguments of the coercing setters and the fields of the responses
PyVals ==
    {None} \cup {PyInt(n) : n \in {-5, 0, 1, 50, 100, 150}}
    \cup {PyFloat(27, 1), PyFloat(0, 0)} \cup Strs

FewVals == {None, PyInt(7), PyFloat(27, 1), PyStr(<<"a">>)}

Names == {PyStr(<<"Den">>), PyStr(<<"Hall">>)}
Models == {PyStr(<<"squeezelite">>), PyStr(<<"baby">>)}
Ips == {PyStr(<<"10.0.0.1">>), PyStr(<<"10.0.0.2">>)}

\* the _sync fields: "-", lists of references, and other texts
SyncVals ==
    {None, PyInt(5)} \cup {PyStr(s) : s \in StrUpTo({"a", "b", ",", "-"}, MaxSyncLen)}

Loops == {None, PyList(<<>>), PyList(<<PyInt(1)>>)}

TagLists == {None, PyList(<<>>), PyList(<<PyStr(<<"a">>)>>),
             PyList(<<PyStr(<<"a">>), PyStr(<<"d">>)>>)}

FailKinds == {"TypeError", "ValueError", "ZeroDivisionError", "OSError"}
Fails == {NoFail} \cup {[at |-> k, kind |-> e] : k \in 1..MaxFailAt, e \in FailKinds}
Never == {NoFail}

\* the mapping that answers the queries about the player itself
Identity(s) == ("_value" :> s.name) @@ ("_model" :> s.model) @@ ("_ip" :> s.ip)

\* a mapping with the field key, or without it when v is absent
Field(key, v) == IF v = None THEN <<>> ELSE (key :> v)

Env(q, f) == [resp |-> Identity(srv) @@ q, fail |-> f]

Cx0 == [log |-> <<>>, tf |-> "none"]

Self == Player(ref, _name, _model, _ip)

----------------------------------------------------------------------------
(* One action for each operation of the handle: it runs the operation on   *)
(* Self and keeps the handle's fields, the requests issued (log) and what  *)
(* the caller saw (last). The handle is used by one synchronous caller:    *)
(* an operation starts (last = Idle) when the caller has taken the result  *)
(* of the one before (Return).                                             *)

Idle == [op |-> "idle", args |-> <<>>, resp |-> <<>>, fail |-> NoFail,
         raised |-> "none", ret |-> None, tf |-> "none"]

Return ==
    /\ last # Idle
    /\ last' = Idle
    /\ log' = <<>>
    /\ UNCHANGED <<ref, _name, _model, _ip, srv>>

Done(op, args, env, out) ==
    \E o \in {out} :
        /\ last' = [op |-> op, args |-> args, resp |-> env.resp, fail |-> env.fail,
                    raised |-> o.raised, ret |-> o.ret, tf |-> o.cx.tf]
        /\ log' = o.cx.log
        /\ ref' = o.h.s
        /\ _name' = Name(o.h)
        /\ _model' = Model(o.h)
        /\ _ip' = Ip(o.h)

Eq ==
    /\ last = Idle
    /\ \E other \in Others :
        /\ Done("__eq__", <<other>>, Env(<<>>, NoFail), Lift(Self, Cx0, __eq__(Self, other)))
        /\ UNCHANGED srv

Update(F) ==
    /\ last = Idle
    /\ \E f \in F :
        /\ Done("update", <<>>, Env(<<>>, f), update(Self, Cx0, Env(<<>>, f)))
        /\ UNCHANGED srv

NameGet(F) ==
    /\ last = Idle
    /\ \E f \in F :
        /\ Done("name", <<>>, Env(<<>>, f), name(Self, Cx0, Env(<<>>, f)))
        /\ UNCHANGED srv

\* the server takes the new name when the request reaches it
NameSet(F) ==
    /\ last = Idle
    /\ \E nm \in Names, f \in F :
        /\ Done("name.setter", <<nm>>, Env(<<>>, f), name_setter(Self, Cx0, Env(<<>>, f), nm))
        /\ srv' = IF last'.raised = "none" THEN [srv EXCEPT !.name = nm] ELSE srv

\* another client of the server renames the player, or the player comes
\* back as another model or at another address
ServerChange ==
    /\ last = Idle
    /\ \E nm \in Names \cup {None}, md \in Models, ip \in Ips :
            srv' = [name |-> nm, model |-> md, ip |-> ip]
    /\ srv' # srv
    /\ UNCHANGED <<ref, _name, _model, _ip, last, log>>

FixedCommand(F) ==
    /\ last = Idle
    /\ \E op \in DOMAIN FixedCommands, f \in F :
        /\ Done(op, <<>>, Env(<<>>, f), fixed_command(Self, Cx0, Env(<<>>, f), op))
        /\ UNCHANGED srv

RawQuery(V, F) ==
    /\ last = Idle
    /\ \E op \in DOMAIN RawQueries, v \in V, f \in F :
        LET env == Env(Field(RawQueries[op][2], v), f)
        IN  /\ Done(op, <<>>, env, raw_query(Self, Cx0, env, op))
            /\ UNCHANGED srv

SeekTo(V, F) ==
    /\ last = Idle
    /\ \E v \in V, f \in F :
        /\ Done("seek_to", <<v>>, Env(<<>>, f), seek_to(Self, Cx0, Env(<<>>, f), v))
        /\ UNCHANGED srv

Forward(V, F) ==
    /\ last = Idle
    /\ \E v \in V, f \in F :
        /\ Done("forward", <<v>>, Env(<<>>, f), forward(Self, Cx0, Env(<<>>, f), v))
        /\ UNCHANGED srv

Rewind(V, F) ==
    /\ last = Idle
    /\ \E v \in V, f \in F :
        /\ Done("rewind", <<v>>, Env(<<>>, f), rewind(Self, Cx0, Env(<<>>, f), v))
        /\ UNCHANGED srv

VolumeSet(V, F) ==
    /\ last = Idle
    /\ \E v \in V, f \in F :
        /\ Done("volume.setter", <<v>>, Env(<<>>, f),
                volume_setter(Self, Cx0, Env(<<>>, f), v))
        /\ UNCHANGED srv

VolumeStep(F) ==
    /\ last = Idle
    /\ \E up \in BOOLEAN, i \in {PyInt(5), PyInt(1)}, f \in F :
        /\ Done(IF up THEN "volume_up" ELSE "volume_down", <<i>>, Env(<<>>, f),
                IF up THEN volume_up(Self, Cx0, Env(<<>>, f), i)
                ELSE volume_down(Self, Cx0, Env(<<>>, f), i))
        /\ UNCHANGED srv

MutedSet(F) ==
    /\ last = Idle
    /\ \E b \in BOOLEAN, f \in F :
        /\ Done("muted.setter", <<PyBool(b)>>, Env(<<>>, f),
                muted_setter(Self, Cx0, Env(<<>>, f), PyBool(b)))
        /\ UNCHANGED srv

Volume(V, F) ==
    /\ last = Idle
    /\ \E v \in V, f \in F :
        LET env == Env(Field("_volume", v), f)
        IN  /\ Done("volume", <<>>, env, volume(Self, Cx0, env))
            /\ UNCHANGED srv

Muted(V, F) ==
    /\ last = Idle
    /\ \E v \in V, f \in F :
        LET env == Env(Field("_muting", v), f)
        IN  /\ Done("muted", <<>>, env, muted(Self, Cx0, env))
            /\ UNCHANGED srv

TimeElapsed(V, F) ==
    /\ last = Idle
    /\ \E v \in V, f \in F :
        LET env == Env(Field("_time", v), f)
        IN  /\ Done("time_elapsed", <<>>, env, time_elapsed(Self, Cx0, env))
            /\ UNCHANGED srv

TrackDuration(V, F) ==
    /\ last = Idle
    /\ \E v \in V, f \in F :
        LET env == Env(Field("_duration", v), f)
        IN  /\ Done("track_duration", <<>>, env, track_duration(Self, Cx0, env))
            /\ UNCHANGED srv

TrackCount(V, F) ==
    /\ last = Idle
    /\ \E v \in V, f \in F :
        LET env == Env(Field("_tracks", v), f)
        IN  /\ Done("track_count", <<>>, env, track_count(Self, Cx0, env))
            /\ UNCHANGED srv

PlaylistPosition(V, F) ==
    /\ last = Idle
    /\ \E v \in V, f \in F :
        LET env == Env(Field("_index", v), f)
        IN  /\ Done("playlist_position", <<>>, env, playlist_position(Self, Cx0, env))
            /\ UNCHANGED srv

TimeRemaining(V, F) ==
    /\ last = Idle
    /\ \E d \in V, e \in V, f \in F :
        LET env == Env(Field("_duration", d) @@ Field("_time", e), f)
        IN  /\ Done("time_remaining", <<>>, env, time_remaining(Self, Cx0, env))
            /\ UNCHANGED srv

PercentageElapsed(V, F) ==
    /\ last = Idle
    /\ \E d \in V, e \in V, f \in F :
        LET env == Env(Field("_duration", d) @@ Field("_time", e), f)
        IN  /\ Done("percentage_elapsed", <<PyInt(100)>>, env,
                    percentage_elapsed(Self, Cx0, env, PyInt(100)))
            /\ UNCHANGED srv

PlaylistEdit(F) ==
    /\ last = Idle
    /\ \E op \in DOMAIN ItemCommands, item \in {PyInt(1), PyStr(<<"a">>)}, f \in F :
        /\ Done(op, <<item>>, Env(<<>>, f), item_command(Self, Cx0, Env(<<>>, f), op, item))
        /\ UNCHANGED srv

PlaylistMove(F) ==
    /\ last = Idle
    /\ \E a \in {PyInt(0), PyInt(1)}, b \in {PyInt(0), PyInt(1)}, f \in F :
        /\ Done("playlist_move", <<a, b>>, Env(<<>>, f),
                playlist_move(Self, Cx0, Env(<<>>, f), a, b))
        /\ UNCHANGED srv

PlaylistPlayIndex(F) ==
    /\ last = Idle
    /\ \E i \in {PyInt(0), PyInt(1)}, f \in F :
        /\ Done("playlist_play_index", <<i>>, Env(<<>>, f),
                Then(playlist_play_index(Self, Cx0, Env(<<>>, f), i),
                     LAMBDA r : Out(r.h, r.cx, "none", PyVal("dict", 0, 0, <<>>, <<r.ret>>))))
        /\ UNCHANGED srv

PlaylistGetInfo(T, V, L, F) ==
    /\ last = Idle
    /\ \E tl \in T, st \in {None, PyInt(1)}, am \in {None, PyInt(2)},
       tc \in V, lp \in L, f \in F :
        LET env == Env(Field("_tracks", tc) @@ Field("playlist_loop", lp), f)
        IN  /\ Done("playlist_get_info", <<tl, st, am>>, env,
                    playlist_get_info(Self, Cx0, env, tl, st, am))
            /\ UNCHANGED srv

PlaylistGetDetail(T, V, L, F) ==
    /\ last = Idle
    /\ \E tl \in T, st \in {None, PyInt(1)}, am \in {None, PyInt(2)},
       tc \in V, lp \in L, f \in F :
        LET env == Env(Field("_tracks", tc) @@ Field("playlist_loop", lp), f)
        IN  /\ Done("playlist_get_detail", <<st, am, tl>>, env,
                    playlist_get_detail(Self, Cx0, env, st, am, tl))
            /\ UNCHANGED srv

PlaylistGetCurrentDetail(T, V, L, F) ==
    /\ last = Idle
    /\ \E tl \in T, am \in {None, PyInt(2)}, ix \in V, tc \in V, lp \in L, f \in F :
        LET env == Env(Field("_index", ix) @@ Field("_tracks", tc)
                       @@ Field("playlist_loop", lp), f)
        IN  /\ Done("playlist_get_current_detail", <<am, tl>>, env,
                    playlist_get_current_detail(Self, Cx0, env, am, tl))
            /\ UNCHANGED srv

Sync(F) ==
    /\ last = Idle
    /\ \E player \in {None} \cup {Player(r, None, None, None) : r \in Refs},
       r \in {None, PyStr(<<>>), PyStr(<<"b">>)},
       index \in {None, PyInt(0), PyInt(1)},
       master \in BOOLEAN, f \in F :
        /\ Done("sync", <<player, r, index, PyBool(master)>>, Env(<<>>, f),
                sync(Self, Cx0, Env(<<>>, f), player, r, index, master))
        /\ UNCHANGED srv

GetSyncedPlayers(S, F) ==
    /\ last = Idle
    /\ \E sy \in S, refs_only \in BOOLEAN, f \in F :
        LET env == Env(Field("_sync", sy), f)
        IN  /\ Done("get_synced_players", <<PyBool(refs_only)>>, env,
                    get_synced_players(Self, Cx0, env, refs_only))
            /\ UNCHANGED srv

----------------------------------------------------------------------------
(* The state after LMSPlayer(ref, server) returned *)

Constructor(r, env, out) ==
    /\ ref = out.h.s
    /\ _name = Name(out.h)
    /\ _model = Model(out.h)
    /\ _ip = Ip(out.h)
    /\ log = out.cx.log
    /\ last = [op |-> "__init__", args |-> <<PyStr(r)>>, resp |-> env.resp,
               fail |-> env.fail, raised |-> out.raised, ret |-> out.ret,
               tf |-> out.cx.tf]

Init ==
    \E r \in Refs, nm \in Names \cup {None} :
        /\ srv = [name |-> nm, model |-> PyStr(<<"squeezelite">>),
                  ip |-> PyStr(<<"10.0.0.1">>)]
        /\ Constructor(r, [resp |-> Identity(srv), fail |-> NoFail],
                       __init__(r, Cx0, [resp |-> Identity(srv), fail |-> NoFail]))

\* comparisons of the handle
NextEq == Eq \/ Return

SpecEq == Init /\ [][NextEq]_vars

\* the coercing setters
NextSet ==
    \/ VolumeSet(PyVals, Never)
    \/ SeekTo(PyVals, Never)
    \/ Forward(PyVals, Never)
    \/ Rewind(PyVals, Never)
    \/ Return

SpecSet == Init /\ [][NextSet]_vars

\* the typed read accessors
NextGet ==
    \/ Volume(PyVals, Never)
    \/ Muted(PyVals, Never)
    \/ TimeElapsed(PyVals, Never)
    \/ TrackDuration(PyVals, Never)
    \/ TrackCount(PyVals, Never)
    \/ PlaylistPosition(PyVals, Never)
    \/ Return

SpecGet == Init /\ [][NextGet]_vars

\* the synchronisation groups
NextSync ==
    \/ Sync(Never)
    \/ GetSyncedPlayers(SyncVals, Never)
    \/ Return

SpecSync == Init /\ [][NextSync]_vars

\* the cached identity of the player
NextRefresh ==
    \/ Update(Never)
    \/ NameGet(Never)
    \/ NameSet(Never)
    \/ ServerChange
    \/ Return

SpecRefresh == Init /\ [][NextRefresh]_vars

\* the playlist queries, against a transport that may fail
NextPlaylist ==
    \/ PlaylistGetInfo(TagLists, FewVals, Loops, Fails)
    \/ PlaylistGetDetail(TagLists, FewVals, Loops, Fails)
    \/ PlaylistGetCurrentDetail({None}, FewVals, Loops, Fails)
    \/ TrackCount(FewVals, Fails)
    \/ Return

SpecPlaylist == Init /\ [][NextPlaylist]_vars

\* every operation, against a transport that may fail
Next ==
    \/ Eq
    \/ Update(Fails)
    \/ NameGet(Fails)
    \/ NameSet(Fails)
    \/ FixedCommand(Fails)
    \/ RawQuery(FewVals, Fails)
    \/ SeekTo(FewVals, Fails)
    \/ Forward(FewVals, Fails)
    \/ Rewind(FewVals, Fails)
    \/ VolumeSet(FewVals, Fails)
    \/ VolumeStep(Fails)
    \/ MutedSet(Fails)
    \/ Volume(FewVals, Fails)
    \/ Muted(FewVals, Fails)
    \/ TimeElapsed(FewVals, Fails)
    \/ TrackDuration(FewVals, Fails)
    \/ TrackCount(FewVals, Fails)
    \/ PlaylistPosition(FewVals, Fails)
    \/ TimeRemaining(FewVals, Fails)
    \/ PercentageElapsed(FewVals, Fails)
    \/ PlaylistEdit(Fails)
    \/ PlaylistMove(Fails)
    \/ PlaylistPlayIndex(Fails)
    \/ PlaylistGetInfo({None}, {PyInt(3)}, {PyList(<<PyInt(1)>>)}, Fails)
    \/ PlaylistGetDetail({None}, {PyInt(3)}, {PyList(<<PyInt(1)>>)}, Fails)
    \/ PlaylistGetCurrentDetail({None}, {PyInt(3)}, {PyList(<<PyInt(1)>>)}, Fails)
    \/ Sync(Fails)
    \/ GetSyncedPlayers({None, PyStr(<<"-">>), PyStr(<<"a", ",", "b">>)}, Fails)
    \/ Return

Spec == Init /\ [][Next]_vars


\* a read makes one request: the transport answers it, or fails it with a
\* TypeError or with another kind of failure
ReadFails ==
    {NoFail, [at |-> 1, kind |-> "TypeError"], [at |-> 1, kind |-> "OSError"]}

\* the reads of the playback state, among the operations that change it, the
\* refreshes of the handle and the other clients of the server
NextRead ==
    \/ Volume(PyVals, ReadFails)
    \/ Muted(PyVals, ReadFails)
    \/ RawQuery(FewVals, ReadFails)
    \/ TimeElapsed(PyVals, ReadFails)
    \/ TrackDuration(PyVals, ReadFails)
    \/ TrackCount(PyVals, ReadFails)
    \/ PlaylistPosition(PyVals, ReadFails)
    \/ VolumeSet(FewVals, Never)
    \/ VolumeStep(Never)
    \/ MutedSet(Never)
    \/ SeekTo(FewVals, Never)
    \/ FixedCommand(Never)
    \/ PlaylistPlayIndex(Never)
    \/ Update(Never)
    \/ NameGet(Never)
    \/ NameSet(Never)
    \/ ServerChange
    \/ Return

SpecRead == Init /\ [][NextRead]_vars

----------------------------------------------------------------------------
(* The claims *)

\* a request addressed to the handle's own reference
Own(words) == [player |-> PyStr(ref), params |-> words]

\* the value has a number: it is one, or it is the text of an integer
Numeric(v) == v.t \in {"int", "float", "bool"} \/ (v.t = "str" /\ IsIntLiteral(v.s))

Truncated(v) == IF v.t = "str" THEN SignOf(v.s) * DigitsVal(Unsigned(v.s))
                ELSE (IF v.n < 0 THEN -1 ELSE 1) * (Abs(v.n) \div Pow10(v.sc))

Clamp(n) == IF n < 0 THEN 0 ELSE IF n > 100 THEN 100 ELSE n

\* C1: comparing a handle with any value never raises; it is equal to a
\* handle or a string whose reference matches regardless of case, and not
\* equal to an object that has no reference.
C1_EqIgnoresCaseAndNeverRaises ==
    last.op = "__eq__" =>
        /\ last.raised = "none"
        /\ last.args[1].t \in {"player", "str"} /\ lower(last.args[1].s) = lower(ref)
             => last.ret = PyBool(TRUE)
        /\ last.args[1].t \notin {"player", "str"} => last.ret = PyBool(FALSE)

\* C2: the volume setter sends exactly one 'mixer volume c', c = clamp(v, 0,
\* 100), for a numeric v, and for any other v sends nothing and raises
\* nothing.
C2_VolumeSetterClampsOrDrops ==
    last.op = "volume.setter" =>
        IF Numeric(last.args[1])
        THEN log = <<Own(<<<<"mixer">>, <<"volume">>,
                           <<ToString(Clamp(Truncated(last.args[1])))>>>>)>>
        ELSE log = <<>> /\ last.raised = "none"

\* C3: sync with a target that resolves issues exactly one request and
\* returns: as master 'sync <target>' to the handle's own reference, as
\* follower 'sync <own reference>' to the target.
C3_SyncIssuesOneRequest ==
    (/\ last.op = "sync"
     /\ ~NoTarget(last.args[1], last.args[2], last.args[3])
     /\ ~FollowerNoTarget(last.args[1], last.args[2], last.args[3], last.args[4].n = 1))
    => /\ last.raised = "none"
       /\ log = <<IF last.args[4].n = 1
                  THEN Own(<<<<"sync">>,
                             Fmt(SyncTarget(last.args[1], last.args[2], last.args[3]))>>)
                  ELSE [player |-> SyncTarget(last.args[1], last.args[2], last.args[3]),
                        params |-> <<<<"sync">>, ref>>]>>

FailedWords == log[last.fail.at].params

\* C5, as it was claimed: whichever request of playlist_get_info fails, the
\* track count query included, the empty list is returned and nothing is
\* raised.
C5_AnyFailureGivesEmptyList ==
    last.op = "playlist_get_info" /\ last.tf # "none"
    => last.raised = "none" /\ last.ret = PyList(<<>>)

\* C5, amended: a failure of the status request gives the empty list and
\* raises nothing, whatever its kind; a failure of the track count query
\* (made first when amount is absent) propagates to the caller, except a
\* TypeError, which track_count turns into the count 0: the status request
\* is then made with amount 0 and its playlist_loop is returned.
C5_StatusFailureGivesEmptyList ==
    last.op = "playlist_get_info" /\ last.tf # "none"
    => IF FailedWords[1] = <<"status">>
       THEN last.raised = "none" /\ last.ret = PyList(<<>>)
       ELSE /\ last.args[3] = None
            /\ FailedWords = <<<<"playlist">>, <<"tracks">>, <<"?">>>>
            /\ IF last.tf = "TypeError"
               THEN /\ last.raised = "none"
                    /\ Len(log) = 2
                    /\ log[2].params[1] = <<"status">>
                    /\ log[2].params[3] = <<"0">>
                    /\ last.ret = Get(last.resp, "playlist_loop")
               ELSE last.raised = last.tf /\ Len(log) = 1

C5_Witness ==
    /\ last.op = "playlist_get_info"
    /\ last.args[3] = None
    /\ last.fail = [at |-> 2, kind |-> "OSError"]
    /\ Len(log) = 2
    /\ last.raised = "none"
    /\ last.ret = PyList(<<>>)

PlaylistReads == {"playlist_get_info", "playlist_get_detail", "playlist_get_current_detail"}

\* the operations whose only handler is except TypeError around a request
CatchTypeError ==
    {"volume", "time_elapsed", "track_duration", "track_count", "playlist_position",
     "time_remaining", "percentage_elapsed", "volume.setter", "seek_to", "forward",
     "rewind"}

IntGetters == {"volume", "track_count", "playlist_position"}
FloatGetters == {"time_elapsed", "track_duration"}

GetterField(op) ==
    CASE op = "volume" -> "_volume" [] op = "muted" -> "_muting"
      [] op = "time_elapsed" -> "_time" [] op = "track_duration" -> "_duration"
      [] op = "track_count" -> "_tracks" [] op = "playlist_position" -> "_index"

\* the field is a number or the text of one
Coercible(op, v) ==
    \/ v.t \in {"int", "float", "bool"}
    \/ v.t = "str" /\ (IF op \in IntGetters THEN IsIntLiteral(v.s) ELSE IsFloatLiteral(v.s))

\* C7: a typed read accessor whose field is absent, or present and not
\* coercible, returns its default and raises nothing: 0 for volume,
\* track_count and playlist_position, 0.0 for time_elapsed and
\* track_duration, False for muted.
C7_GettersDefaultOnBadField ==
    (/\ last.op \in IntGetters \cup FloatGetters \cup {"muted"}
     /\ ~Coercible(last.op, Get(last.resp, GetterField(last.op))))
    => /\ last.raised = "none"
       /\ last.ret = (IF last.op \in IntGetters THEN PyInt(0)
                      ELSE IF last.op \in FloatGetters THEN PyFloat(0, 0)
                      ELSE PyBool(FALSE))

\* the three queries of a refresh of the player r
Refresh(r) ==
    <<[player |-> PyStr(r), params |-> <<<<"name">>, <<"?">>>>],
      [player |-> PyStr(r), params |-> <<<<"player">>, <<"model">>, <<"?">>>>],
      [player |-> PyStr(r), params |-> <<<<"player">>, <<"ip">>, <<"?">>>>]>>

\* C8: every refresh, the constructor's and each later update(), issues the
\* three queries name, model and address to the handle's reference, and
\* leaves the cached name, model and address equal to the server's answers.
C8_RefreshQueriesAllThree ==
    last.op \in {"__init__", "update"}
    => /\ log = Refresh(ref)
       /\ _name = Get(last.resp, "_value")
       /\ _model = Get(last.resp, "_model")
       /\ _ip = Get(last.resp, "_ip")

RECURSIVE Commas(_)
Commas(s) == IF s = <<>> THEN 0 ELSE (IF s[1] = "," THEN 1 ELSE 0) + Commas(Tail(s))

\* the entries are the comma-separated parts of the text s, in order
PartsOf(entries, s) ==
    /\ Len(entries) = Commas(s) + 1
    /\ \A i \in 1..Len(entries) : Commas(entries[i].s) = 0
    /\ Join(entries, ",") = s

RECURSIVE Refreshes(_)
Refreshes(players) ==
    IF players = <<>> THEN <<>> ELSE Refresh(players[1].s) \o Refreshes(Tail(players))

\* get_synced_players returned the members of the text s
SyncedMembers(s) ==
    /\ last.raised = "none"
    /\ last.ret.t = "list"
    /\ PartsOf(last.ret.l, s)
    /\ IF last.args[1].n = 1
       THEN /\ \A i \in 1..Len(last.ret.l) : last.ret.l[i].t = "str"
            /\ log = <<Own(<<<<"sync">>, <<"?">>>>)>>
       ELSE /\ \A i \in 1..Len(last.ret.l) :
                  /\ last.ret.l[i].t = "player"
                  /\ last.ret.l[i].l = <<Get(last.resp, "_value"), Get(last.resp, "_model"),
                                         Get(last.resp, "_ip")>>
            /\ log = <<Own(<<<<"sync">>, <<"?">>>>)>> \o Refreshes(last.ret.l)

\* C9, as it was claimed: the empty list when _sync is "-", and for every
\* other response one entry for each comma-separated reference.
C9_EveryOtherResponseSplits ==
    last.op = "get_synced_players"
    => IF Get(last.resp, "_sync") = PyStr(<<"-">>)
       THEN last.raised = "none" /\ last.ret = PyList(<<>>) /\ Len(log) = 1
       ELSE SyncedMembers(Get(last.resp, "_sync").s)

\* C9, amended: get_synced_players issues 'sync ?' and reads _sync; the
\* empty list when it is exactly "-"; for every other text one entry for
\* each comma-separated reference, in order, as strings when refs_only and
\* else as new handles, each refreshed by its own three queries to the same
\* server; when the field is absent or is not a text, AttributeError is
\* raised after the one query.
C9_EveryOtherTextSplits ==
    last.op = "get_synced_players"
    => IF Get(last.resp, "_sync") = PyStr(<<"-">>)
       THEN last.raised = "none" /\ last.ret = PyList(<<>>)
            /\ log = <<Own(<<<<"sync">>, <<"?">>>>)>>
       ELSE IF Get(last.resp, "_sync").t = "str"
       THEN SyncedMembers(Get(last.resp, "_sync").s)
       ELSE last.raised = "AttributeError" /\ log = <<Own(<<<<"sync">>, <<"?">>>>)>>

C9_Witness ==
    /\ last.op = "get_synced_players"
    /\ last.args[1].n = 0
    /\ Get(last.resp, "_sync") = PyStr(<<"a", ",", "b">>)
    /\ Len(last.ret.l) = 2
    /\ last.ret.l[2].s = <<"b">>
    /\ Len(log) = 7

\* C10: seek_to, forward and rewind send exactly one 'time s', 'time +s',
\* 'time -s' when the argument coerces to a number, and when it does not
\* they send nothing and raise nothing.
C10_SeekCoercesOrDrops ==
    last.op \in {"seek_to", "forward", "rewind"}
    => IF last.args[1].t \in {"int", "float", "bool"}
          \/ (last.args[1].t = "str" /\ IsFloatLiteral(last.args[1].s))
       THEN /\ Len(log) = 1
            /\ log[1].player = PyStr(ref)
            /\ log[1].params[1] = <<"time">>
       ELSE log = <<>> /\ last.raised = "none"

\* the reads of the playback state
PlaybackReads ==
    {"volume", "muted", "mode", "time_elapsed", "track_duration", "track_count",
     "playlist_position"}

\* the words of the query of each read
PlaybackQuery(op) ==
    CASE op = "volume" -> <<<<"mixer">>, <<"volume">>, <<"?">>>>
      [] op = "muted" -> <<<<"mixer">>, <<"muting">>, <<"?">>>>
      [] op = "mode" -> <<<<"mode">>, <<"?">>>>
      [] op = "time_elapsed" -> <<<<"time">>, <<"?">>>>
      [] op = "track_duration" -> <<<<"duration">>, <<"?">>>>
      [] op = "track_count" -> <<<<"playlist">>, <<"tracks">>, <<"?">>>>
      [] op = "playlist_position" -> <<<<"playlist">>, <<"index">>, <<"?">>>>

PlaybackField(op) == IF op = "mode" THEN "_mode" ELSE GetterField(op)

\* what a read gives for the field v of the response to its query
FromResponse(op, v) ==
    CASE op = "mode" -> Ret(v)
      [] op = "muted" -> Ret(PyBool(v # None /\ EqualsOne(v)))
      [] op \in IntGetters -> IF v = None THEN Ret(PyInt(0)) ELSE int(v)
      [] op \in FloatGetters -> IF v = None THEN Ret(PyFloat(0, 0)) ELSE float(v)

\* one step of the handle, of its caller or of another client
C11_Step ==
    /\ ref' = ref
    /\ _name' # _name => last'.op \in {"update", "name", "name.setter"}
    /\ _model' # _model => last'.op = "update"
    /\ _ip' # _ip => last'.op = "update"
    /\ last'.op \in PlaybackReads =>
         /\ UNCHANGED <<_name, _model, _ip>>
         /\ log' = <<Own(PlaybackQuery(last'.op))>>
         /\ last'.tf = "none" =>
              /\ last'.raised =
                    FromResponse(last'.op, Get(last'.resp, PlaybackField(last'.op))).raised
              /\ last'.ret =
                    FromResponse(last'.op, Get(last'.resp, PlaybackField(last'.op))).ret

\* C11: playback state is never cached on the handle. After any sequence of
\* operations of the handle and of other clients of the server, each read of
\* volume, muted, mode, time_elapsed, track_duration, track_count and
\* playlist_position issues one fresh query to the handle's reference and
\* gives what the response to that query determines; no operation writes a
\* field of the handle other than the cached name, model and address, and
\* these are written by the refresh and the name accessors alone.
C11_PlaybackStateNeverCached == [][C11_Step]_vars

C11_Witness ==
    /\ last.op = "volume"
    /\ Get(last.resp, "_volume") = PyInt(50)
    /\ last.ret = PyInt(50)
    /\ log = <<Own(<<<<"mixer">>, <<"volume">>, <<"?">>>>)>>
    /\ _name = PyStr(<<"Den">>)
    /\ srv.name = PyStr(<<"Hall">>)
====
